---- MODULE Spec2Model ----
(***************************************************************************)
(* Write path of the smart-hospital device API (src/app/routes/api_v1.py): *)
(* API-key authorization, device registration and idempotent ingestion of  *)
(* vital signs, run by concurrent request handlers against one shared      *)
(* transactional store (src/app/models.py).                                *)
(*                                                                         *)
(* Strings are TLA+ strings; a Python None (absent header, absent JSON     *)
(* field) is the distinguished value NONE, which no input domain contains. *)
(* A handler is cut into steps at its store accesses: every step is one    *)
(* store round trip together with the pure code that precedes it, so the   *)
(* interleavings are those the store can observe. A part of a request (a   *)
(* header, the JSON body, the path) is drawn when the handler first reads  *)
(* it; what a handler never reads cannot influence it.                     *)
(*                                                                         *)
(* The store is the default one of src/app/config.py (SQLite): primary     *)
(* keys and unique columns are enforced, foreign keys are not. Rows carry  *)
(* the columns the handlers set from the request and read back; the        *)
(* measurement columns a Vital copies from the body (heart_rate, bp, spo2, *)
(* temp) and the defaulted columns (registered_at, status, created_at) are *)
(* left out, as are the body fields they come from. uid() values are       *)
(* pairwise distinct.                                                      *)
(***************************************************************************)
EXTENDS Integers, Sequences, FiniteSets, TLC

\* ------------------------------------------------------------------ bounds
\* Total number of requests a behaviour starts when requests are concurrent.
MaxOps == 2

\* Total number of requests a behaviour starts when they are served in turn.
MaxSeqOps == 3

\* Request handlers that may be in flight at the same time (threads/processes
\* of the service sharing the store).
Workers == {"w1", "w2"}

\* ------------------------------------------------------------- input values
NONE == "<none>"

DEVICE_MASTER_KEY == "dev-master-key-123"

\* X-API-Key header values a request may carry: absent, empty, the master
\* secret, and a value that is a device key once the first uid() minted it.
ApiKeyInputs == {NONE, "", DEVICE_MASTER_KEY, "key_1"}

PatientIdInputs == {"p1", "p2"}

\* Device ids; one of them contains the ':' that record_idempotency uses as
\* the separator of its combined key.
DeviceIdInputs == {"d", "d:x"}

\* Device types sent to register_device; "ecg" is not an allowed type.
TypeInputs == {"hr", "bp", "ecg"}

\* Idempotency-Key header values: absent, empty, and two tokens.
HeaderTokenInputs == {NONE, "", "y", "x:y"}

\* idempotency_key field of the JSON body: absent or a token.
BodyTokenInputs == {NONE, "y"}

\* timestamp field of the JSON body: absent, or an ISO-8601 instant.
TimestampInputs == {NONE, "2024-01-01T00:00:00Z", "2024-01-02T00:00:00Z"}

\* The timestamps sent by requests that run concurrently: the instant of a
\* reading plays no part in how requests interleave.
ConcurrentTimestampInputs == {NONE, "2024-01-01T00:00:00Z"}

\* ------------------------------------------------------------------- state
VARIABLES
  patient,      \* committed Patient rows
  device,       \* committed Device rows
  vital,        \* committed Vital rows
  idem,         \* committed IdempotencyKey rows
  pc,           \* position of each handler
  req,          \* the request each handler is serving
  local,        \* local variables / session of each handler
  resp,         \* the response each handler produced
  nuid,         \* number of uid() values drawn so far
  nops,         \* number of requests started so far
  wrote,        \* history: tables each in-flight request has committed to
  issued,       \* history: credentials returned by successful registrations
  observedNew,  \* history: record_idempotency calls with a token that returned True
  ingested,     \* history: Vitals stored, with the request that stored them
  called,       \* history: (device_id, token) pairs of completed ingestions
  reply         \* the read being served (get_latest, get_history) and its response

store == <<patient, device, vital, idem>>
hist  == <<wrote, issued, observedNew, ingested, called>>
vars  == <<patient, device, vital, idem, pc, req, local, resp, nuid, nops,
           wrote, issued, observedNew, ingested, called, reply>>

\* ------------------------------------------------------------ pure helpers
\* Python truthiness of an optional string: None and "" are falsy.
Truthy(s) == s # NONE /\ s # ""

\* Variant: the id does not depend on the draw.
uid_NotUnique(prefix, n) == prefix \o "_0"

\* uid(prefix): a fresh id; the n-th draw is distinct from every other draw.
uid(prefix, n) == prefix \o "_" \o ToString(n)

\* error(code, http, message): the JSON error payload and its HTTP status.
error(code, http) ==
  [http |-> http, status |-> code, api_key |-> NONE, vital_id |-> NONE]

\* Flask's answer to an exception no handler catches.
InternalServerError(exc) ==
  [http |-> 500, status |-> exc, api_key |-> NONE, vital_id |-> NONE]

NoResp == [http |-> 0, status |-> NONE, api_key |-> NONE, vital_id |-> NONE]

\* No read is being served and no response to a read awaits delivery.
NoReply ==
  [route |-> NONE, patient_id |-> NONE, args |-> <<>>, pc |-> NONE, http |-> 0,
   status |-> NONE, results |-> <<>>, page |-> 0, page_size |-> 0, total |-> 0]

NoReq ==
  [kind |-> NONE, op |-> 0, x_api_key |-> NONE, patient_id |-> NONE,
   device_id |-> NONE, type |-> NONE, timestamp |-> NONE,
   idempotency_header |-> NONE, idempotency_key |-> NONE]

\* pending: rows added to the session; flushed: rows inserted in the open
\* transaction; idem: the resolved token; exc: the exception that was raised.
NoLocal == [pending |-> {}, flushed |-> {}, idem |-> NONE, exc |-> NONE]

\* DeviceRegisterSchema: the allowed device types.
DeviceTypes == {"hr", "bp", "spo2", "temp", "multi"}

\* DeviceRegisterSchema().load: all three fields required, type one of the enum.
DeviceRegisterSchemaValid(r) ==
  /\ r.device_id # NONE
  /\ r.type \in DeviceTypes
  /\ r.patient_id # NONE

\* fields.DateTime: the instant an ISO-8601 string denotes, as a day number;
\* 0 stands for a string that is no instant.
DateTimeValue(s) ==
  CASE s = "2024-01-01T00:00:00Z" -> 1
    [] s = "2024-01-02T00:00:00Z" -> 2
    [] s = "2024-01-03T00:00:00Z" -> 3
    [] OTHER -> 0

\* VitalInSchema().load: timestamp and device_id required; the schema declares
\* no idempotency_key field and marshmallow rejects a field it does not know.
VitalInSchemaValid(r) ==
  /\ r.timestamp # NONE
  /\ DateTimeValue(r.timestamp) # 0
  /\ r.device_id # NONE
  /\ r.idempotency_key = NONE

\* combined = f"{device_id}:{idem_key}"
CombinedKey(device_id, idem_key) == device_id \o ":" \o idem_key

\* request.headers.get("Idempotency-Key") or (request.json or {}).get("idempotency_key")
ResolveIdem(r) ==
  IF Truthy(r.idempotency_header) THEN r.idempotency_header ELSE r.idempotency_key

\* Variant: the arguments of Patient are swapped.
NewPatient_Swapped(pid) == [id |-> "Patient " \o pid, name |-> pid]

\* ---------------------------------------------------------------- the store
\* Patient(id=..., name=f"Patient {id}")
NewPatient(pid) == [id |-> pid, name |-> "Patient " \o pid]

\* Primary key of Patient: an insert of a row whose id is committed is rejected.
PatientInsertOk(rows) == \A p \in rows : \A q \in patient : q.id # p.id

\* Variant: Device.id is not declared a primary key.
DeviceInsertOk_NoKey(row) == TRUE

\* Primary key of Device.
DeviceInsertOk(row) == \A d \in device : d.id # row.id

\* Variant: the key column is declared without unique=True.
IdemInsertOk_NotUnique(row) == TRUE

\* Unique constraint on IdempotencyKey.key.
IdemInsertOk(row) == \A k \in idem : k.key # row.key

\* Primary key of Vital.
VitalInsertOk(row) == \A v \in vital : v.id # row.id

\* SQLite has one write lock for the whole database. A handler that has
\* inserted a row and not yet committed or rolled back holds it: every write of
\* another handler, to any table and of any key, waits for that transaction to
\* end (the requests are short of the driver's busy timeout). Reads go on.
DatabaseLocked(w) == \E v \in Workers \ {w} : local[v].flushed # {}

\* Variant: the handler does not look for an existing device.
ExistingDevice_Unchecked(device_id) == {}

\* Device.query.get(device_id)
ExistingDevice(device_id) == {d \in device : d.id = device_id}

\* The store's message for a rejected insert.
UniqueFailed(column) == "UNIQUE constraint failed: " \o column

\* ------------------------------------------------------ require_device_api_key
\* Variant: only the master secret is accepted, the Device table is not read.
require_device_api_key_MasterOnly(supplied) ==
  IF ~Truthy(supplied)
    THEN [ok |-> FALSE, resp |-> error("missing_api_key", 401)]
  ELSE IF supplied = DEVICE_MASTER_KEY
    THEN [ok |-> TRUE, resp |-> NoResp]
  ELSE [ok |-> FALSE, resp |-> error("invalid_api_key", 401)]

require_device_api_key(supplied) ==
  IF ~Truthy(supplied)
    THEN [ok |-> FALSE, resp |-> error("missing_api_key", 401)]
  ELSE IF supplied = DEVICE_MASTER_KEY
    THEN [ok |-> TRUE, resp |-> NoResp]
  ELSE IF \E d \in device : d.api_key = supplied
    THEN [ok |-> TRUE, resp |-> NoResp]
  ELSE [ok |-> FALSE, resp |-> error("invalid_api_key", 401)]

\* ------------------------------------------------------------------- Init
Init ==
  /\ patient = {}
  /\ device = {}
  /\ vital = {}
  /\ idem = {}
  /\ pc = [w \in Workers |-> "idle"]
  /\ req = [w \in Workers |-> NoReq]
  /\ local = [w \in Workers |-> NoLocal]
  /\ resp = [w \in Workers |-> NoResp]
  /\ nuid = 0
  /\ nops = 0
  /\ wrote = [w \in Workers |-> {}]
  /\ issued = {}
  /\ observedNew = {}
  /\ ingested = {}
  /\ called = {}
  /\ reply = NoReply

\* ---------------------------------------------------------- history helpers
\* The tables a step commits to, added to the request's record.
Track(w) ==
  wrote' = [wrote EXCEPT ![w] = @ \cup
              (IF patient' # patient THEN {"patient"} ELSE {}) \cup
              (IF device' # device THEN {"device"} ELSE {}) \cup
              (IF vital' # vital THEN {"vital"} ELSE {}) \cup
              (IF idem' # idem THEN {"idem"} ELSE {})]

\* The handler returns r: the response is produced, the request is over.
Return(w, r) ==
  /\ resp' = [resp EXCEPT ![w] = r]
  /\ pc' = [pc EXCEPT ![w] = "done"]

Goto(w, label) ==
  /\ pc' = [pc EXCEPT ![w] = label]
  /\ UNCHANGED resp

\* ------------------------------------------------------------ a request arrives
\* A free handler takes the next request; its route selects the view function.
Arrive(w, kind, first) ==
  /\ pc[w] = "idle"
  /\ req' = [req EXCEPT ![w] = [NoReq EXCEPT !.kind = kind, !.op = nops + 1]]
  /\ nops' = nops + 1
  /\ pc' = [pc EXCEPT ![w] = first]
  /\ UNCHANGED <<store, local, resp, nuid, hist, reply>>

BeginRegister(w) == nops < MaxOps /\ Arrive(w, "register", "reg_auth")

BeginVitals(w) == nops < MaxOps /\ Arrive(w, "vitals", "vit_auth")

\* ------------------------------------------------------------ register_device
\* ok, resp = require_device_api_key(); if not ok: return resp
RegAuth(w) ==
  /\ pc[w] = "reg_auth"
  /\ \E k \in ApiKeyInputs :
       /\ req' = [req EXCEPT ![w].x_api_key = k]
       /\ LET a == require_device_api_key(k) IN
            IF a.ok THEN Goto(w, "reg_load") ELSE Return(w, a.resp)
  /\ UNCHANGED <<reply, store, local, nuid, nops, issued, observedNew, ingested, called>>
  /\ Track(w)

\* DeviceRegisterSchema().load, then Patient.query.get and, for an unknown
\* patient, db.session.add(patient): the new row is pending in the session.
RegLoad(w) ==
  /\ pc[w] = "reg_load"
  /\ \E d \in DeviceIdInputs, t \in TypeInputs, p \in PatientIdInputs :
       LET body == [req[w] EXCEPT !.device_id = d, !.type = t, !.patient_id = p] IN
       /\ req' = [req EXCEPT ![w] = body]
       /\ IF ~DeviceRegisterSchemaValid(body)
            THEN /\ Return(w, error("validation_error", 400))
                 /\ UNCHANGED local
            ELSE /\ Goto(w, "reg_device")
                 /\ local' = [local EXCEPT ![w].pending =
                                IF \E q \in patient : q.id = body.patient_id
                                  THEN {} ELSE {NewPatient(body.patient_id)}]
  /\ UNCHANGED <<reply, store, nuid, nops, issued, observedNew, ingested, called>>
  /\ Track(w)

\* existing = Device.query.get(device_id). The query first flushes the session:
\* a pending Patient is inserted in the request's open transaction. An existing
\* device ends the request with its stored credential; nothing is committed.
RegDevice(w) ==
  /\ pc[w] = "reg_device"
  /\ local[w].pending # {} => ~DatabaseLocked(w)
  /\ IF ~PatientInsertOk(local[w].pending)
       THEN /\ Return(w, InternalServerError("IntegrityError"))
            /\ local' = [local EXCEPT ![w].pending = {},
                                      ![w].exc = UniqueFailed("patient.id")]
            /\ UNCHANGED issued
       ELSE LET existing == ExistingDevice(req[w].device_id) IN
            /\ local' = [local EXCEPT ![w].pending = {}, ![w].flushed = local[w].pending]
            /\ IF existing # {}
                 THEN LET e == CHOOSE d \in existing : TRUE IN
                      /\ Return(w, [http |-> 200, status |-> "already_registered",
                                    api_key |-> e.api_key, vital_id |-> NONE])
                      /\ issued' = issued \cup
                           {[device_id |-> e.id, api_key |-> e.api_key, op |-> req[w].op]}
                 ELSE /\ Goto(w, "reg_commit")
                      /\ UNCHANGED issued
  /\ UNCHANGED <<reply, store, req, nuid, nops, observedNew, ingested, called>>
  /\ Track(w)

\* api_key = uid("key"); db.session.add(device); db.session.commit()
RegCommit(w) ==
  /\ pc[w] = "reg_commit"
  /\ ~DatabaseLocked(w)
  /\ LET api_key == uid("key", nuid + 1)
         row == [id |-> req[w].device_id, type |-> req[w].type,
                 patient_id |-> req[w].patient_id, api_key |-> api_key]
     IN IF DeviceInsertOk(row)
          THEN /\ patient' = patient \cup local[w].flushed
               /\ device' = device \cup {row}
               /\ Return(w, [http |-> 201, status |-> "registered",
                             api_key |-> api_key, vital_id |-> NONE])
               /\ issued' = issued \cup
                    {[device_id |-> row.id, api_key |-> api_key, op |-> req[w].op]}
               /\ local' = [local EXCEPT ![w].flushed = {}]
          ELSE /\ Return(w, InternalServerError("IntegrityError"))
               /\ local' = [local EXCEPT ![w].flushed = {},
                                         ![w].exc = UniqueFailed("device.id")]
               /\ UNCHANGED <<patient, device, issued>>
  /\ nuid' = nuid + 1
  /\ UNCHANGED <<reply, vital, idem, req, nops, observedNew, ingested, called>>
  /\ Track(w)

\* ---------------------------------------------------------- record_idempotency
\* Variant: the lookup filters by the bare token instead of the combined key.
IdemSeen_BareToken(device_id, idem_key) ==
  \E k \in idem : k.key = idem_key

\* Variant: a ledger row counts only if a Vital of the device is stored.
IdemSeen_RequiresVital(device_id, idem_key) ==
  /\ \E k \in idem : k.key = CombinedKey(device_id, idem_key)
  /\ \E v \in vital : v.device_id = device_id

\* IdempotencyKey.query.filter_by(key=combined).first()
IdemSeen(device_id, idem_key) ==
  \E k \in idem : k.key = CombinedKey(device_id, idem_key)

\* IdempotencyKey(device_id=device_id, key=combined); id is the autoincrement key.
NewIdempotencyKey(device_id, idem_key) ==
  [id |-> Cardinality(idem) + 1, device_id |-> device_id,
   key |-> CombinedKey(device_id, idem_key)]

\* The (device_id, token) pair an ingestion carries, when it carries a token.
Pair(w) ==
  IF Truthy(local[w].idem) THEN {<<req[w].device_id, local[w].idem>>} ELSE {}

\* ---------------------------------------------------------------- post_vitals
\* ok, resp = require_device_api_key(); if not ok: return resp
VitAuth(w) ==
  /\ pc[w] = "vit_auth"
  /\ \E k \in ApiKeyInputs :
       /\ req' = [req EXCEPT ![w].x_api_key = k]
       /\ LET a == require_device_api_key(k) IN
            IF a.ok THEN Goto(w, "vit_load") ELSE Return(w, a.resp)
  /\ UNCHANGED <<reply, store, local, nuid, nops, issued, observedNew, ingested, called>>
  /\ Track(w)

\* Variant: the header token is recorded before the payload is validated.
VitLoad_RecordsBeforeValidating(w, Timestamps) ==
  /\ pc[w] = "vit_load"
  /\ \E d \in DeviceIdInputs, ts \in Timestamps,
        h \in HeaderTokenInputs, b \in BodyTokenInputs :
       LET body == [req[w] EXCEPT !.device_id = d, !.timestamp = ts,
                                  !.idempotency_header = h, !.idempotency_key = b]
           i == ResolveIdem(body)
       IN
       /\ req' = [req EXCEPT ![w] = body]
       /\ local' = [local EXCEPT ![w].idem = i]
       /\ IF Truthy(i) /\ IdemSeen(d, i)
            THEN /\ Return(w, [http |-> 200, status |-> "duplicate_ignored",
                               api_key |-> NONE, vital_id |-> NONE])
                 /\ UNCHANGED idem
            ELSE /\ idem' = IF Truthy(i) THEN idem \cup {NewIdempotencyKey(d, i)} ELSE idem
                 /\ IF ~VitalInSchemaValid(body)
                      THEN Return(w, error("validation_error", 400))
                      ELSE Goto(w, "vit_commit")
  /\ UNCHANGED <<reply, patient, device, vital, nuid, nops, issued, observedNew, ingested, called>>
  /\ Track(w)

\* VitalInSchema().load, the token is resolved, and record_idempotency runs up
\* to its query: no token is "new" at once, a recorded key is a duplicate.
\* Timestamps are the timestamp values the body may carry.
VitLoad(w, Timestamps) ==
  /\ pc[w] = "vit_load"
  /\ \E d \in DeviceIdInputs, ts \in Timestamps,
        h \in HeaderTokenInputs, b \in BodyTokenInputs :
       LET body == [req[w] EXCEPT !.device_id = d, !.timestamp = ts,
                                  !.idempotency_header = h, !.idempotency_key = b] IN
       /\ req' = [req EXCEPT ![w] = body]
       /\ IF ~VitalInSchemaValid(body)
            THEN /\ Return(w, error("validation_error", 400))
                 /\ UNCHANGED <<local, called>>
            ELSE LET i == ResolveIdem(body) IN
                 /\ local' = [local EXCEPT ![w].idem = i]
                 /\ IF ~Truthy(i)
                      THEN /\ Goto(w, "vit_commit")
                           /\ UNCHANGED called
                    ELSE IF IdemSeen(d, i)
                      THEN /\ Return(w, [http |-> 200, status |-> "duplicate_ignored",
                                         api_key |-> NONE, vital_id |-> NONE])
                           /\ called' = called \cup {<<d, i>>}
                    ELSE /\ Goto(w, "vit_idem")
                         /\ UNCHANGED called
  /\ UNCHANGED <<reply, store, nuid, nops, issued, observedNew, ingested>>
  /\ Track(w)

\* record_idempotency, after its query found nothing:
\* db.session.add(IdempotencyKey(...)); db.session.commit(); return True.
\* The store rejects a key that was committed meanwhile; nothing catches that.
VitIdem(w) ==
  /\ pc[w] = "vit_idem"
  /\ ~DatabaseLocked(w)
  /\ LET row == NewIdempotencyKey(req[w].device_id, local[w].idem) IN
       IF IdemInsertOk(row)
         THEN /\ idem' = idem \cup {row}
              /\ observedNew' = observedNew \cup
                   {[device_id |-> req[w].device_id, token |-> local[w].idem,
                     op |-> req[w].op]}
              /\ Goto(w, "vit_commit")
              /\ UNCHANGED <<called, local>>
         ELSE /\ Return(w, InternalServerError("IntegrityError"))
              /\ local' = [local EXCEPT ![w].exc = UniqueFailed("idempotency_key.key")]
              /\ called' = called \cup Pair(w)
              /\ UNCHANGED <<idem, observedNew>>
  /\ UNCHANGED <<reply, patient, device, vital, req, nuid, nops, issued, ingested>>
  /\ Track(w)

\* Variant: the Vital is merged, replacing a stored Vital of the same patient
\* and timestamp.
VitCommit_Upsert(w) ==
  /\ pc[w] = "vit_commit"
  /\ ~DatabaseLocked(w)
  /\ \E p \in PatientIdInputs :
       LET row == [id |-> uid("v", nuid + 1), patient_id |-> p,
                   timestamp |-> DateTimeValue(req[w].timestamp),
                   device_id |-> req[w].device_id]
       IN /\ req' = [req EXCEPT ![w].patient_id = p]
          /\ vital' = {v \in vital : v.patient_id # p \/ v.timestamp # row.timestamp}
                         \cup {row}
          /\ Return(w, [http |-> 201, status |-> "stored",
                        api_key |-> NONE, vital_id |-> row.id])
          /\ ingested' = ingested \cup
               {[op |-> req[w].op, device_id |-> row.device_id,
                 token |-> local[w].idem, vital_id |-> row.id]}
          /\ UNCHANGED local
  /\ nuid' = nuid + 1
  /\ called' = called \cup Pair(w)
  /\ UNCHANGED <<reply, patient, device, idem, nops, issued, observedNew>>
  /\ Track(w)

\* v = Vital(id=uid("v"), ...); db.session.add(v); db.session.commit()
VitCommit(w) ==
  /\ pc[w] = "vit_commit"
  /\ ~DatabaseLocked(w)
  /\ \E p \in PatientIdInputs :
       LET row == [id |-> uid("v", nuid + 1), patient_id |-> p,
                   timestamp |-> DateTimeValue(req[w].timestamp),
                   device_id |-> req[w].device_id]
       IN /\ req' = [req EXCEPT ![w].patient_id = p]
          /\ IF VitalInsertOk(row)
               THEN /\ vital' = vital \cup {row}
                    /\ Return(w, [http |-> 201, status |-> "stored",
                                  api_key |-> NONE, vital_id |-> row.id])
                    /\ ingested' = ingested \cup
                         {[op |-> req[w].op, device_id |-> row.device_id,
                           token |-> local[w].idem, vital_id |-> row.id]}
                    /\ UNCHANGED local
               ELSE /\ Return(w, InternalServerError("IntegrityError"))
                    /\ local' = [local EXCEPT ![w].exc = UniqueFailed("vital.id")]
                    /\ UNCHANGED <<vital, ingested>>
  /\ nuid' = nuid + 1
  /\ called' = called \cup Pair(w)
  /\ UNCHANGED <<reply, patient, device, idem, nops, issued, observedNew>>
  /\ Track(w)

\* The response is sent and the request's session is removed: what it had not
\* committed is rolled back, and the handler is free for the next request.
Finish(w) ==
  /\ pc[w] = "done"
  /\ pc' = [pc EXCEPT ![w] = "idle"]
  /\ req' = [req EXCEPT ![w] = NoReq]
  /\ local' = [local EXCEPT ![w] = NoLocal]
  /\ resp' = [resp EXCEPT ![w] = NoResp]
  /\ wrote' = [wrote EXCEPT ![w] = {}]
  /\ UNCHANGED <<reply, store, nuid, nops, issued, observedNew, ingested, called>>

\* ------------------------------------------------------------ specifications
\* Requests are served concurrently.
Next ==
  \E w \in Workers :
    \/ BeginRegister(w)
    \/ BeginVitals(w)
    \/ RegAuth(w)
    \/ RegLoad(w)
    \/ RegDevice(w)
    \/ RegCommit(w)
    \/ VitAuth(w)
    \/ VitLoad(w, ConcurrentTimestampInputs)
    \/ VitIdem(w)
    \/ VitCommit(w)
    \/ Finish(w)

Spec == Init /\ [][Next]_vars

\* The store after a first registration, of device "d:x" for patient "p1": the
\* Patient and the Device are committed and the device holds the first key.
InitRegistered ==
  /\ patient = {NewPatient("p1")}
  /\ device = {[id |-> "d:x", type |-> "hr", patient_id |-> "p1",
                api_key |-> uid("key", 1)]}
  /\ vital = {}
  /\ idem = {}
  /\ pc = [w \in Workers |-> "idle"]
  /\ req = [w \in Workers |-> NoReq]
  /\ local = [w \in Workers |-> NoLocal]
  /\ resp = [w \in Workers |-> NoResp]
  /\ nuid = 1
  /\ nops = 0
  /\ wrote = [w \in Workers |-> {}]
  /\ issued = {[device_id |-> "d:x", api_key |-> uid("key", 1), op |-> 0]}
  /\ observedNew = {}
  /\ ingested = {}
  /\ called = {}
  /\ reply = NoReply

\* Requests are served concurrently by a store that holds a Patient already,
\* so that a registration naming that patient inserts nothing before its
\* commit.
SpecRegistered == InitRegistered /\ [][Next]_vars

\* Requests are served one after the other: a request starts only when no
\* other is in flight.
Quiet == \A v \in Workers : pc[v] = "idle"

SeqBeginRegister(w) ==
  Quiet /\ nops < MaxSeqOps /\ Arrive(w, "register", "reg_auth")

SeqBeginVitals(w) ==
  Quiet /\ nops < MaxSeqOps /\ Arrive(w, "vitals", "vit_auth")

\* With one request at a time it does not matter which handler serves it.
SeqWorker == CHOOSE w \in Workers : TRUE

NextSeq ==
  \E w \in {SeqWorker} :
    \/ SeqBeginRegister(w)
    \/ SeqBeginVitals(w)
    \/ RegAuth(w)
    \/ RegLoad(w)
    \/ RegDevice(w)
    \/ RegCommit(w)
    \/ VitAuth(w)
    \/ VitLoad(w, TimestampInputs)
    \/ VitIdem(w)
    \/ VitCommit(w)
    \/ Finish(w)

SpecSeq == Init /\ [][NextSeq]_vars

\* ================================================================== claims
\* A handler that has passed authorization and validation of an ingestion.
Ingesting(w) == pc[w] \in {"vit_load", "vit_idem", "vit_commit"}

\* The step is the one in which handler w returns.
Returns(w) == pc[w] # "done" /\ pc'[w] = "done"

\* C1: requests served in turn, all ingestions with a token carrying one pair
\* (device_id, token): the first completed authorized call with a valid payload
\* returns 'stored' (201) and adds exactly one Vital; every later one returns
\* 'duplicate_ignored' (200) and leaves the Vitals as they were.
C1_SequentialIdempotentIngestion ==
  [][\A w \in Workers :
       (/\ Ingesting(w)
        /\ Returns(w)
        /\ resp'[w].status # "validation_error"
        /\ Truthy(ResolveIdem(req'[w]))
        /\ called \subseteq {<<req'[w].device_id, ResolveIdem(req'[w])>>})
       => IF <<req'[w].device_id, ResolveIdem(req'[w])>> \in called
            THEN /\ resp'[w].status = "duplicate_ignored"
                 /\ resp'[w].http = 200
                 /\ vital' = vital
                 /\ "vital" \notin wrote'[w]
            ELSE /\ resp'[w].status = "stored"
                 /\ resp'[w].http = 201
                 /\ vital \subseteq vital'
                 /\ Cardinality(vital' \ vital) = 1
                 /\ Cardinality(vital') = Cardinality(vital) + 1
    ]_vars

\* C1 witness: a replay of a stored (device_id, token) with another timestamp
\* was answered 'duplicate_ignored' and one Vital is stored.
C1_Witness ==
  \E w \in Workers :
    /\ pc[w] = "done"
    /\ resp[w].status = "duplicate_ignored"
    /\ Cardinality(vital) = 1
    /\ \E i \in ingested, v \in vital :
         /\ i.vital_id = v.id
         /\ i.device_id = req[w].device_id
         /\ i.token = local[w].idem
         /\ i.op # req[w].op
         /\ v.timestamp # DateTimeValue(req[w].timestamp)

\* C2: under any interleaving, for one (device_id, non-empty token) at most one
\* request gets True from record_idempotency and at most one Vital is stored.
C2_AtMostOneNewPerKey ==
  /\ \A a, b \in observedNew :
       (a.device_id = b.device_id /\ a.token = b.token) => a.op = b.op
  /\ \A a, b \in ingested :
       (Truthy(a.token) /\ a.device_id = b.device_id /\ a.token = b.token)
         => (a.op = b.op /\ a.vital_id = b.vital_id)

\* C2 witness: two requests with the same pair both passed the existence check;
\* one stored its Vital and the store rejected the other's ledger insert.
C2_Witness ==
  \E w, v \in Workers :
    /\ w # v
    /\ req[w].kind = "vitals" /\ req[v].kind = "vitals"
    /\ req[w].device_id = req[v].device_id
    /\ Truthy(local[w].idem) /\ local[w].idem = local[v].idem
    /\ resp[w].status = "stored"
    /\ local[v].exc = UniqueFailed("idempotency_key.key")

\* C3: a request whose ledger insert the store's unique constraint rejected
\* ends with 'duplicate_ignored' (200), not with a server error.
C3_LosingInsertIsDuplicate ==
  \A w \in Workers :
    (pc[w] = "done" /\ local[w].exc = UniqueFailed("idempotency_key.key"))
      => (resp[w].status = "duplicate_ignored" /\ resp[w].http = 200)

\* A handler that has passed authorization and validation of a registration.
Registering(w) == pc[w] \in {"reg_device", "reg_commit"}

\* C4: requests served in turn: the first authorized valid registration of a
\* device id returns 'registered' (201) with a key no one held before and
\* stores the Device as requested; every later one for that id returns
\* 'already_registered' (200) with the same key and leaves the Devices alone.
C4_SequentialIdempotentRegistration ==
  [][\A w \in Workers :
       (Registering(w) /\ Returns(w))
       => LET prior == {i \in issued : i.device_id = req[w].device_id} IN
          IF prior = {}
            THEN /\ resp'[w].status = "registered"
                 /\ resp'[w].http = 201
                 /\ Truthy(resp'[w].api_key)
                 /\ resp'[w].api_key # DEVICE_MASTER_KEY
                 /\ \A i \in issued : i.api_key # resp'[w].api_key
                 /\ \A d \in device : d.api_key # resp'[w].api_key
                 /\ device' = device \cup
                      {[id |-> req[w].device_id, type |-> req[w].type,
                        patient_id |-> req[w].patient_id,
                        api_key |-> resp'[w].api_key]}
            ELSE /\ resp'[w].status = "already_registered"
                 /\ resp'[w].http = 200
                 /\ \A i \in prior : resp'[w].api_key = i.api_key
                 /\ device' = device
                 /\ "device" \notin wrote'[w]
    ]_vars

\* C4 witness: a device was registered again with another type and another
\* patient and the answer was 'already_registered'.
C4_Witness ==
  \E w \in Workers, d \in device :
    /\ pc[w] = "done"
    /\ resp[w].status = "already_registered"
    /\ d.id = req[w].device_id
    /\ d.api_key = resp[w].api_key
    /\ d.type # req[w].type
    /\ d.patient_id # req[w].patient_id

\* C5: under any interleaving no two registrations of one device id return
\* different keys, and the store holds at most one Device row per id.
C5_OneKeyPerDevice ==
  /\ \A a, b \in issued : a.device_id = b.device_id => a.api_key = b.api_key
  /\ \A a, b \in device : a.id = b.id => a = b

\* C5 witness: two concurrent registrations of one new device id both passed
\* the existing-device check; one was registered, the other's insert rejected.
C5_Witness ==
  \E w, v \in Workers :
    /\ w # v
    /\ req[w].kind = "register" /\ req[v].kind = "register"
    /\ req[w].device_id = req[v].device_id
    /\ resp[w].status = "registered"
    /\ local[v].exc = UniqueFailed("device.id")

\* C6: a registration whose Device insert the store's primary key rejected
\* returns the stored credential with 'already_registered' (200), not a
\* server error.
C6_LosingRegistrationIsAlreadyRegistered ==
  \A w \in Workers :
    (pc[w] = "done" /\ local[w].exc = UniqueFailed("device.id"))
      => /\ resp[w].status = "already_registered"
         /\ resp[w].http = 200
         /\ \E d \in device : d.id = req[w].device_id /\ d.api_key = resp[w].api_key

\* The step in which handler w runs require_device_api_key.
Authorizes(w) == pc[w] \in {"reg_auth", "vit_auth"} /\ pc'[w] # pc[w]

\* C7: an absent or empty X-API-Key is answered 'missing_api_key'; a non-empty
\* key passes iff it is the master secret or the api_key of a stored Device;
\* any other is answered 'invalid_api_key'; the store is left as it was.
C7_AuthorizationOutcome ==
  [][\A w \in Workers :
       Authorizes(w)
       => LET k == req'[w].x_api_key
              known == k = DEVICE_MASTER_KEY \/ \E d \in device : d.api_key = k
          IN /\ store' = store
             /\ (k = NONE \/ k = "")
                  => (pc'[w] = "done" /\ resp'[w] = error("missing_api_key", 401))
             /\ (k # NONE /\ k # "" /\ known)
                  => (pc'[w] \in {"reg_load", "vit_load"} /\ resp'[w] = NoResp)
             /\ (k # NONE /\ k # "" /\ ~known)
                  => (pc'[w] = "done" /\ resp'[w] = error("invalid_api_key", 401))
    ]_vars

\* C7 witness: a request was authorized by the key issued to a stored Device.
C7_Witness ==
  \E w \in Workers, d \in device :
    /\ pc[w] \in {"reg_load", "vit_load"}
    /\ req[w].x_api_key = d.api_key
    /\ req[w].x_api_key # DEVICE_MASTER_KEY

Rejections == {"missing_api_key", "invalid_api_key", "validation_error"}

\* C8: a request that ended in missing_api_key, invalid_api_key or
\* validation_error has committed nothing to any table and leaves nothing
\* uncommitted behind.
C8_RejectionWritesNothing ==
  \A w \in Workers :
    (pc[w] = "done" /\ resp[w].status \in Rejections)
      => (wrote[w] = {} /\ local[w].pending = {} /\ local[w].flushed = {})

\* C8 witness: an authorized ingestion carrying an Idempotency-Key header was
\* rejected for its payload, and the ledger does not hold its key.
C8_Witness ==
  \E w \in Workers :
    /\ pc[w] = "done"
    /\ req[w].kind = "vitals"
    /\ resp[w].status = "validation_error"
    /\ Truthy(req[w].idempotency_header)
    /\ req[w].device_id # NONE
    /\ ~IdemSeen(req[w].device_id, req[w].idempotency_header)

\* C9: an authorized ingestion with a valid payload and no (or an empty) token
\* goes on to store exactly one new Vital under an id no stored Vital has,
\* returns 'stored' (201) and never writes the ledger; the Vitals so stored
\* are pairwise distinct.
C9_NoTokenNoDedup ==
  /\ [][\A w \in Workers :
          /\ (/\ pc[w] = "vit_load"
              /\ pc'[w] # "vit_load"
              /\ resp'[w].status # "validation_error"
              /\ ~Truthy(req'[w].idempotency_header)
              /\ ~Truthy(req'[w].idempotency_key))
             => (pc'[w] = "vit_commit" /\ store' = store)
          /\ (pc[w] = "vit_commit" /\ ~Truthy(local[w].idem) /\ pc'[w] # pc[w])
             => /\ resp'[w].status = "stored"
                /\ resp'[w].http = 201
                /\ \A v \in vital : v.id # resp'[w].vital_id
                /\ \E v \in vital' : v.id = resp'[w].vital_id /\ vital' = vital \cup {v}
                /\ Cardinality(vital') = Cardinality(vital) + 1
                /\ idem' = idem
                /\ "idem" \notin wrote'[w]
       ]_vars
  /\ [](\A a, b \in ingested : a.op # b.op => a.vital_id # b.vital_id)

\* C9 witness: two ingestions without a token and with the same payload and
\* patient are both stored, as two Vitals.
C9_Witness ==
  \E a, b \in ingested, v, u \in vital :
    /\ a.op # b.op
    /\ ~Truthy(a.token) /\ ~Truthy(b.token)
    /\ v.id = a.vital_id /\ u.id = b.vital_id
    /\ v.id # u.id
    /\ v.patient_id = u.patient_id
    /\ v.device_id = u.device_id
    /\ v.timestamp = u.timestamp
    /\ idem = {}

\* C10: an authorized ingestion whose payload is otherwise valid and which
\* carries its token only in the body field is accepted and deduplicated by
\* that token: it ends 'stored' or 'duplicate_ignored'.
C10_BodyTokenAccepted ==
  \A w \in Workers :
    (/\ pc[w] = "done"
     /\ req[w].kind = "vitals"
     /\ req[w].device_id # NONE
     /\ DateTimeValue(req[w].timestamp) # 0
     /\ ~Truthy(req[w].idempotency_header)
     /\ Truthy(req[w].idempotency_key))
    => resp[w].status \in {"stored", "duplicate_ignored"}

\* C11: tokens are scoped per device. Requests served in turn, an authorized
\* ingestion with a valid payload and a token whose pair (device_id, token)
\* differs from the pair of every earlier call: its ledger key differs from the
\* key of every earlier pair and the call returns 'stored' (201) with one more
\* Vital, also when an id or a token contains the ':' separator.
C11_DistinctPairsBothStored ==
  [][\A w \in Workers :
       (/\ Ingesting(w)
        /\ Returns(w)
        /\ resp'[w].status # "validation_error"
        /\ Truthy(ResolveIdem(req'[w]))
        /\ <<req'[w].device_id, ResolveIdem(req'[w])>> \notin called)
       => /\ \A p \in called :
               CombinedKey(p[1], p[2])
                 # CombinedKey(req'[w].device_id, ResolveIdem(req'[w]))
          /\ resp'[w].status = "stored"
          /\ resp'[w].http = 201
          /\ Cardinality(vital') = Cardinality(vital) + 1
    ]_vars

\* ------------------------------------------------------------- store faults
\* db.session.commit() of the Vital raises because the store fails (locked or
\* unreachable database): the Vital is not stored, the exception is not handled
\* and the request ends in a 500. What record_idempotency committed stays.
VitCommitFails(w) ==
  /\ pc[w] = "vit_commit"
  /\ ~DatabaseLocked(w)
  /\ \E p \in PatientIdInputs : req' = [req EXCEPT ![w].patient_id = p]
  /\ Return(w, InternalServerError("OperationalError"))
  /\ local' = [local EXCEPT ![w].exc = "OperationalError"]
  /\ nuid' = nuid + 1
  /\ called' = called \cup Pair(w)
  /\ UNCHANGED <<reply, patient, device, vital, idem, nops, issued, observedNew,
                 ingested>>
  /\ Track(w)

\* Requests are served one at a time and the commit of a Vital may fail. The
\* instant of a reading plays no part in what a failed commit leaves behind.
NextFault ==
  \E w \in {SeqWorker} :
    \/ SeqBeginRegister(w)
    \/ SeqBeginVitals(w)
    \/ RegAuth(w)
    \/ RegLoad(w)
    \/ RegDevice(w)
    \/ RegCommit(w)
    \/ VitAuth(w)
    \/ VitLoad(w, ConcurrentTimestampInputs)
    \/ VitIdem(w)
    \/ VitCommit(w)
    \/ VitCommitFails(w)
    \/ Finish(w)

SpecFault == Init /\ [][NextFault]_vars

\* C12: a finished ingestion that carried a token has committed its ledger
\* record and its Vital, or neither of them, whatever its outcome (a store
\* failure on the Vital insert included).
C12_AllOrNothing ==
  \A w \in Workers :
    (pc[w] = "done" /\ req[w].kind = "vitals" /\ Truthy(local[w].idem))
      => ((\E o \in observedNew : o.op = req[w].op)
            <=> (\E i \in ingested : i.op = req[w].op))

\* C13: patient auto-provisioning. When a registration that passed
\* authorization and validation is over, it has not failed on the patient, and
\* if it succeeded ('registered' or 'already_registered') the Patient it named
\* is stored, with the name derived from the id.
C13_PatientProvisioned ==
  [][\A w \in Workers :
       (pc[w] = "done" /\ pc'[w] = "idle" /\ req[w].kind = "register")
       => /\ local[w].exc # UniqueFailed("patient.id")
          /\ resp[w].status \in {"registered", "already_registered"}
               => NewPatient(req[w].patient_id) \in patient'
    ]_vars

\* -------------------------------------------------------------------- reads
\* The most Vitals a store holds when reads are examined.
MaxVitals == 3

\* Query parameters of get_history as they arrive: absent, empty or a string.
FromToInputs == {NONE, "2024-01-02T00:00:00Z", "yesterday"}
PageInputs == {NONE, "0", "1", "2", "3", "x"}
PageSizeInputs == {NONE, "0", "1", "2", "1000", "x"}

\* request.args.get("page", 1) and request.args.get("page_size", 100)
DefaultPage == 1
DefaultPageSize == 100
\* min(..., 500)
MaxPageSize == 500

\* int(s) of a query parameter: the strings int() accepts, and their values.
IntLiterals == {"-1", "0", "1", "2", "3", "4", "1000"}
int(s) ==
  CASE s = "-1" -> -1
    [] s = "0" -> 0
    [] s = "1" -> 1
    [] s = "2" -> 2
    [] s = "3" -> 3
    [] s = "4" -> 4
    [] s = "1000" -> 1000

\* parse_dt(s): None (here 0) for an absent or empty string, else the instant
\* datetime.fromisoformat gives once "Z" is replaced by "+00:00".
parse_dt(s) == IF Truthy(s) THEN DateTimeValue(s) ELSE 0

\* parse_dt raises ValueError on a string that is no ISO-8601 instant.
parse_dt_Raises(s) == Truthy(s) /\ DateTimeValue(s) = 0

\* v.timestamp.isoformat() of a stored timestamp (stored without offset).
isoformat(n) ==
  CASE n = 1 -> "2024-01-01T00:00:00"
    [] n = 2 -> "2024-01-02T00:00:00"
    [] n = 3 -> "2024-01-03T00:00:00"

\* The JSON object a Vital is rendered as; the model's Vitals carry no
\* measurements, so the timestamp and the device remain.
Item(v) == [timestamp |-> isoformat(v.timestamp) \o "Z", device_id |-> v.device_id]

Max(a, b) == IF a >= b THEN a ELSE b
Min(a, b) == IF a <= b THEN a ELSE b

\* Variant: the rows are ordered by ascending timestamp.
OrderByTimestampDesc_Ascending(S) ==
  {s \in [1..Cardinality(S) -> S] :
     /\ \A i, j \in 1..Cardinality(S) : i # j => s[i] # s[j]
     /\ \A i, j \in 1..Cardinality(S) : i < j => s[i].timestamp <= s[j].timestamp}

\* q.order_by(Vital.timestamp.desc()): every order of the rows the store may
\* produce; rows of equal timestamp come in any order.
OrderByTimestampDesc(S) ==
  {s \in [1..Cardinality(S) -> S] :
     /\ \A i, j \in 1..Cardinality(S) : i # j => s[i] # s[j]
     /\ \A i, j \in 1..Cardinality(S) : i < j => s[i].timestamp >= s[j].timestamp}

\* .offset((page - 1) * size)
Offset(page, size) == (page - 1) * size

\* .offset(offset).limit(limit) of an ordered result.
OffsetLimit(s, offset, limit) ==
  LET lo == offset + 1
      hi == Min(offset + limit, Len(s))
  IN IF lo > hi THEN <<>> ELSE SubSeq(s, lo, hi)

\* The JSON error body of a read, with the route, the patient and the query
\* parameters of the request it answers.
ReadError(route, pid, args, code, http) ==
  [route |-> route, patient_id |-> pid, args |-> args, pc |-> "done",
   http |-> http, status |-> code, results |-> <<>>, page |-> 0,
   page_size |-> 0, total |-> 0]

\* get_latest(patient_id): the responses the handler may give in this state.
get_latest(pid) ==
  LET q == {v \in vital : v.patient_id = pid} IN
  IF q = {}
    THEN {ReadError("latest", pid, <<>>, "not_found", 404)}
    ELSE {[route |-> "latest", patient_id |-> pid, args |-> <<>>,
           pc |-> "done", http |-> 200, status |-> NONE,
           results |-> <<Item(s[1])>>, page |-> 0, page_size |-> 0, total |-> 0]
            : s \in OrderByTimestampDesc(q)}

\* page = max(int(request.args.get("page", 1)), 1)
PageOf(page) == Max(IF page = NONE THEN DefaultPage ELSE int(page), 1)

\* size = min(max(int(request.args.get("page_size", 100)), 1), 500)
SizeOf(page_size) ==
  Min(Max(IF page_size = NONE THEN DefaultPageSize ELSE int(page_size), 1),
      MaxPageSize)

\* The rows the query of get_history selects: the patient's Vitals, from
\* dt_from on if it is given, up to dt_to if it is given, both inclusive.
Matching(pid, dt_from, dt_to) ==
  {v \in vital :
     /\ v.patient_id = pid
     /\ dt_from # 0 => v.timestamp >= dt_from
     /\ dt_to # 0 => v.timestamp <= dt_to}

\* An exception in the try block of get_history: a bound that is no instant or
\* a page or page_size that is no integer.
get_history_Raises(from, to, page, page_size) ==
  \/ parse_dt_Raises(from)
  \/ parse_dt_Raises(to)
  \/ page # NONE /\ page \notin IntLiterals
  \/ page_size # NONE /\ page_size \notin IntLiterals

\* get_history up to total = q.count() (line 190): the query parameters are
\* parsed and the matching rows counted; the page is still to be fetched.
history_count(pid, from, to, page, page_size) ==
  [route |-> "history", patient_id |-> pid,
   args |-> <<from, to, page, page_size>>, pc |-> "hist_page", http |-> 0,
   status |-> NONE, results |-> <<>>, page |-> PageOf(page),
   page_size |-> SizeOf(page_size),
   total |-> Cardinality(Matching(pid, parse_dt(from), parse_dt(to)))]

\* get_history from q.order_by(...).offset(...).limit(...) (line 191) to the
\* return: the page is fetched by a second query, from the store as it is by
\* then, and returned with the total counted before.
history_page(r) ==
  LET q == Matching(r.patient_id, parse_dt(r.args[1]), parse_dt(r.args[2])) IN
  {[r EXCEPT !.pc = "done", !.http = 200,
             !.results =
               [i \in 1..Len(OffsetLimit(s, Offset(r.page, r.page_size), r.page_size))
                  |-> Item(OffsetLimit(s, Offset(r.page, r.page_size), r.page_size)[i])]]
     : s \in OrderByTimestampDesc(q)}

\* get_history(patient_id): the responses the handler may give when nothing is
\* committed between its two queries.
get_history(pid, from, to, page, page_size) ==
  IF get_history_Raises(from, to, page, page_size)
    THEN {ReadError("history", pid, <<from, to, page, page_size>>,
                    "bad_request", 400)}
    ELSE history_page(history_count(pid, from, to, page, page_size))

\* GET /patients/<patient_id>/latest: one query, no authorization, no write.
GetLatest ==
  /\ reply = NoReply
  /\ \E pid \in PatientIdInputs : reply' \in get_latest(pid)
  /\ UNCHANGED <<store, pc, req, local, resp, nuid, nops, hist>>

\* GET /patients/<patient_id>/history, first part: no authorization; the
\* parameters are parsed (an exception ends the request with 'bad_request') and
\* the matching rows are counted.
HistCount(FromTos, Pages, PageSizes) ==
  /\ reply = NoReply
  /\ \E pid \in PatientIdInputs, from \in FromTos, to \in FromTos,
        page \in Pages, page_size \in PageSizes :
       reply' = IF get_history_Raises(from, to, page, page_size)
                  THEN ReadError("history", pid, <<from, to, page, page_size>>,
                                 "bad_request", 400)
                  ELSE history_count(pid, from, to, page, page_size)
  /\ UNCHANGED <<store, pc, req, local, resp, nuid, nops, hist>>

\* GET /patients/<patient_id>/history, second part: the page is fetched and
\* the response returned. Other handlers may have committed in between.
HistPage ==
  /\ reply.pc = "hist_page"
  /\ reply' \in history_page(reply)
  /\ UNCHANGED <<store, pc, req, local, resp, nuid, nops, hist>>

\* The Vital tables of up to MaxVitals rows a store may hold after ingestions:
\* ids in the order of ingestion, any patient and timestamp on each row.
StoredTimestamps ==
  {DateTimeValue(t) : t \in (TimestampInputs \ {NONE}) \cup {"2024-01-03T00:00:00Z"}}
VitalTables ==
  UNION {{{[id |-> uid("v", i), patient_id |-> f[i][1], timestamp |-> f[i][2],
            device_id |-> "d"] : i \in 1..k}
            : f \in [1..k -> PatientIdInputs \X StoredTimestamps]}
           : k \in 0..MaxVitals}

\* Reads of a store that holds some Vitals and that nobody writes to.
InitRead ==
  /\ vital \in VitalTables
  /\ nuid = Cardinality(vital)
  /\ patient = {}
  /\ device = {}
  /\ idem = {}
  /\ pc = [w \in Workers |-> "idle"]
  /\ req = [w \in Workers |-> NoReq]
  /\ local = [w \in Workers |-> NoLocal]
  /\ resp = [w \in Workers |-> NoResp]
  /\ nops = 0
  /\ wrote = [w \in Workers |-> {}]
  /\ issued = {}
  /\ observedNew = {}
  /\ ingested = {}
  /\ called = {}
  /\ reply = NoReply

\* The response to a read is delivered to its caller; the next read is taken.
DeliverReply ==
  /\ reply.pc = "done"
  /\ reply' = NoReply
  /\ UNCHANGED <<store, pc, req, local, resp, nuid, nops, hist>>

NextRead ==
  \/ GetLatest
  \/ HistCount(FromToInputs, PageInputs, PageSizeInputs)
  \/ HistPage
  \/ DeliverReply

SpecRead == InitRead /\ [][NextRead]_vars

\* C14: the response get_latest gives is 'not_found' (404) exactly when no
\* Vital of the patient is stored; otherwise it is 200 with a Vital of that
\* patient whose timestamp is not below the timestamp of any Vital of that
\* patient, whatever the order in which the Vitals were ingested.
C14_LatestIsMaximal ==
  [][(reply = NoReply /\ reply'.route = "latest") =>
       LET q == {v \in vital : v.patient_id = reply'.patient_id} IN
       /\ reply'.pc = "done"
       /\ reply'.status = "not_found" <=> q = {}
       /\ q = {} => reply'.http = 404
       /\ q # {} =>
            /\ reply'.http = 200
            /\ \E v \in q :
                 /\ reply'.results = <<Item(v)>>
                 /\ \A u \in q : v.timestamp >= u.timestamp
    ]_vars

\* C14 witness: the Vital returned was ingested before another Vital of the
\* patient that has an earlier timestamp.
C14_Witness ==
  /\ reply.route = "latest"
  /\ reply.http = 200
  /\ \E v, u \in vital :
       /\ v.patient_id = reply.patient_id
       /\ u.patient_id = reply.patient_id
       /\ v.id = "v_1"
       /\ u.id = "v_2"
       /\ v.timestamp > u.timestamp
       /\ reply.results = <<Item(v)>>

\* The sequence s lists every element of S once, by descending timestamp.
SortedDescOf(s, S) ==
  /\ Len(s) = Cardinality(S)
  /\ {s[i] : i \in 1..Len(s)} = S
  /\ \A i, j \in 1..Len(s) : i < j => s[i].timestamp >= s[j].timestamp

\* The Vitals of patient pid within the inclusive bounds of the query
\* parameters from and to; an absent or empty parameter sets no bound.
WithinBounds(pid, from, to) ==
  {v \in vital :
     /\ v.patient_id = pid
     /\ (from # NONE /\ from # "") => DateTimeValue(from) <= v.timestamp
     /\ (to # NONE /\ to # "") => v.timestamp <= DateTimeValue(to)}

\* The items of all pages 1..n of patient pid's unbounded history, page after
\* page, for a page size given as the query parameter page_size.
RECURSIVE PagesUpTo(_, _, _)
PagesUpTo(pid, page_size, n) ==
  IF n = 0 THEN <<>>
  ELSE PagesUpTo(pid, page_size, n - 1) \o
       (CHOOSE r \in get_history(pid, NONE, NONE, ToString(n), page_size) : TRUE).results

\* Pagination of get_history, query by query: the handler takes the page
\* floored to 1 and the page size clamped to 1..500 (defaults 1 and 100);
\* 'total' is the number of the patient's Vitals within the inclusive from/to
\* bounds when the handler counts them; the results of the 200 response are the
\* elements at positions (page-1)*size+1 .. page*size of those Vitals by
\* descending timestamp when the handler fetches the page. When the patient's
\* Vitals have distinct timestamps and no read is in progress, the pages read
\* from there one after the other, with no write in between, are disjoint and
\* together hold every Vital of the patient.
PaginationPerQuery ==
  /\ [][/\ (reply = NoReply /\ reply'.pc = "hist_page") =>
             LET page == reply'.args[3]
                 page_size == reply'.args[4]
                 n == IF page_size = NONE THEN 100 ELSE int(page_size)
             IN /\ reply'.page =
                     (IF page = NONE THEN 1 ELSE IF int(page) < 1 THEN 1 ELSE int(page))
                /\ reply'.page_size =
                     (IF n < 1 THEN 1 ELSE IF n > 500 THEN 500 ELSE n)
                /\ reply'.total = Cardinality(WithinBounds(reply'.patient_id,
                                                reply'.args[1], reply'.args[2]))
        /\ (reply.pc = "hist_page" /\ reply'.pc = "done") =>
             LET p == reply.page
                 size == reply.page_size
                 M == WithinBounds(reply.patient_id, reply.args[1], reply.args[2])
             IN /\ reply'.http = 200
                /\ reply'.page = p
                /\ reply'.page_size = size
                /\ reply'.total = reply.total
                /\ \E s \in [1..Cardinality(M) -> M] :
                     /\ SortedDescOf(s, M)
                     /\ LET positions == {k \in 1..Len(s) :
                                            (p - 1) * size + 1 <= k /\ k <= p * size}
                        IN /\ Len(reply'.results) = Cardinality(positions)
                           /\ \A i \in 1..Len(reply'.results) :
                                reply'.results[i] = Item(s[(p - 1) * size + i])
       ]_vars
  /\ [](\A pid \in PatientIdInputs, page_size \in {"1", "2"} :
          LET M == WithinBounds(pid, NONE, NONE)
              all == PagesUpTo(pid, page_size, Cardinality(M))
          IN (reply = NoReply /\ \A v, u \in M : v # u => v.timestamp # u.timestamp)
             => /\ \A r \in get_history(pid, NONE, NONE, NONE, page_size) :
                     r.total = Cardinality(M)
                /\ Len(all) = Cardinality(M)
                /\ {all[i] : i \in 1..Len(all)} = {Item(v) : v \in M}
                /\ \A i, j \in 1..Len(all) : i # j => all[i] # all[j])

\* A read of that kind: the second page of size 2 of three Vitals selected by
\* an inclusive lower bound that one of them meets exactly holds that Vital
\* alone.
PaginationPerQuery_Witness ==
  /\ reply.route = "history"
  /\ reply.pc = "done"
  /\ reply.http = 200
  /\ reply.page = 2
  /\ reply.page_size = 2
  /\ reply.total = 3
  /\ Len(reply.results) = 1
  /\ reply.args[1] # NONE
  /\ reply.args[1] # ""
  /\ reply.results[1].timestamp = reply.args[1]

\* The ledger records whose request is over and stored no Vital: the request
\* committed the idempotency record and its Vital insert failed.
Orphaned ==
  {o \in observedNew :
     /\ \A i \in ingested : i.op # o.op
     /\ \A w \in Workers : req[w].op # o.op}

\* C16: the known consistency gap. Once a request has committed the ledger
\* record of (device_id, token) and failed to insert its Vital, every later
\* authorized, valid call with that pair returns 'duplicate_ignored' (200) and
\* leaves the Vitals as they were, and no Vital of that pair is ever stored.
C16_OrphanedRecordBlocksRetries ==
  /\ [][\A w \in Workers :
          (/\ Ingesting(w)
           /\ Returns(w)
           /\ resp'[w].status # "validation_error"
           /\ \E o \in Orphaned :
                /\ o.device_id = req'[w].device_id
                /\ o.token = ResolveIdem(req'[w]))
          => /\ resp'[w].status = "duplicate_ignored"
             /\ resp'[w].http = 200
             /\ vital' = vital
       ]_vars
  /\ [](\A o \in Orphaned : \A i \in ingested :
          ~(i.device_id = o.device_id /\ i.token = o.token))

\* C16 witness: a second retry of a pair whose first request failed on the
\* Vital insert is answered 'duplicate_ignored', and no Vital is stored.
C16_Witness ==
  \E w \in Workers :
    /\ pc[w] = "done"
    /\ req[w].op = 3
    /\ resp[w].status = "duplicate_ignored"
    /\ vital = {}
    /\ \E o \in Orphaned :
         /\ o.op = 1
         /\ o.device_id = req[w].device_id
         /\ o.token = local[w].idem

\* ------------------------------------------------------------ all operations
\* The most requests that write (registrations and ingestions) in a run that
\* mixes them with reads.
MaxAllOps == 2

\* The query parameters of the reads of such a run: what a read returns plays
\* no part in what it leaves in the store.
OpsFromToInputs == {NONE}
OpsPageInputs == {NONE}
OpsPageSizeInputs == {"1"}

OpsBeginRegister(w) ==
  Quiet /\ nops < MaxAllOps /\ Arrive(w, "register", "reg_auth")

OpsBeginVitals(w) ==
  Quiet /\ nops < MaxAllOps /\ Arrive(w, "vitals", "vit_auth")

\* Every operation of the API: the writing requests one at a time, and reads
\* that run alongside them, so that a write may commit between the two queries
\* of get_history.
NextOps ==
  \/ \E w \in {SeqWorker} :
       \/ OpsBeginRegister(w)
       \/ OpsBeginVitals(w)
       \/ RegAuth(w)
       \/ RegLoad(w)
       \/ RegDevice(w)
       \/ RegCommit(w)
       \/ VitAuth(w)
       \/ VitLoad(w, TimestampInputs)
       \/ VitIdem(w)
       \/ VitCommit(w)
       \/ Finish(w)
  \/ GetLatest
  \/ HistCount(OpsFromToInputs, OpsPageInputs, OpsPageSizeInputs)
  \/ HistPage
  \/ DeliverReply

SpecOps == Init /\ [][NextOps]_vars

\* C15: the 200 response of get_history carries the page floored to 1 and the
\* page size clamped to 1..500 (defaults 1 and 100); its results are the
\* elements at positions (page-1)*size+1 .. page*size of the patient's Vitals
\* within the inclusive from/to bounds, by descending timestamp, and its
\* 'total' is the number of those same Vitals.
C15_TotalCountsThePagedVitals ==
  [][(reply.pc = "hist_page" /\ reply'.pc = "done") =>
       LET page == reply'.args[3]
           page_size == reply'.args[4]
           n == IF page_size = NONE THEN 100 ELSE int(page_size)
           p == IF page = NONE THEN 1 ELSE IF int(page) < 1 THEN 1 ELSE int(page)
           size == IF n < 1 THEN 1 ELSE IF n > 500 THEN 500 ELSE n
           M == WithinBounds(reply'.patient_id, reply'.args[1], reply'.args[2])
       IN /\ reply'.http = 200
          /\ reply'.page = p
          /\ reply'.page_size = size
          /\ reply'.total = Cardinality(M)
          /\ \E s \in [1..Cardinality(M) -> M] :
               /\ SortedDescOf(s, M)
               /\ LET positions == {k \in 1..Len(s) :
                                      (p - 1) * size + 1 <= k /\ k <= p * size}
                  IN /\ Len(reply'.results) = Cardinality(positions)
                     /\ \A i \in 1..Len(reply'.results) :
                          reply'.results[i] = Item(s[(p - 1) * size + i])
    ]_vars

\* C17: Vitals are append-only. In every step the stored Vitals stay as they
\* are unless the step is a post_vitals request returning 'stored', and that
\* step keeps every stored Vital and adds one Vital, with an id no stored Vital
\* has, which is the id the response names. Registrations, reads, rejected
\* requests and 'duplicate_ignored' requests leave the Vitals as they were.
C17_VitalsAppendOnly ==
  [][/\ vital' # vital =>
          \E w \in Workers :
            /\ Returns(w)
            /\ req'[w].kind = "vitals"
            /\ resp'[w].status = "stored"
            /\ vital \subseteq vital'
            /\ \E row \in vital' \ vital :
                 /\ vital' = vital \cup {row}
                 /\ row.id = resp'[w].vital_id
                 /\ \A v \in vital : v.id # row.id
     /\ \A w \in Workers :
          (Returns(w) /\ resp'[w].status = "stored")
            => Cardinality(vital') = Cardinality(vital) + 1
     /\ \A w \in Workers :
          (\/ pc'[w] # pc[w] /\ "register" \in {req[w].kind, req'[w].kind}
           \/ Returns(w) /\ resp'[w].status = "duplicate_ignored"
           \/ Returns(w) /\ resp'[w].http \in {400, 401})
            => vital' = vital
     /\ reply' # reply => vital' = vital
    ]_vars

\* C17 witness: after one ingestion was stored and a second request of the
\* same reading was stored as well, a read of the history was answered with
\* both Vitals.
C17_Witness ==
  /\ reply.route = "history"
  /\ reply.pc = "done"
  /\ reply.total = 2
  /\ Cardinality(vital) = 2
  /\ \E v, u \in vital :
       v # u /\ v.patient_id = u.patient_id /\ v.timestamp = u.timestamp

\* C18: every registered Device holds one api_key, a non-empty string that
\* stays the same in every later state, and no two Devices hold the same
\* api_key, so a key other than the master key that authorizes a request
\* matches exactly one Device.
C18_ApiKeyUnique ==
  /\ [](/\ \A d \in device : Truthy(d.api_key) /\ d.api_key # DEVICE_MASTER_KEY
        /\ \A d, e \in device : d.id = e.id => d = e
        /\ \A d, e \in device : d.api_key = e.api_key => d = e)
  /\ [][/\ \A d \in device :
             \E e \in device' : e.id = d.id /\ e.api_key = d.api_key
        /\ \A w \in Workers :
             (/\ Authorizes(w)
              /\ resp'[w] = NoResp
              /\ req'[w].x_api_key # DEVICE_MASTER_KEY)
             => Cardinality({d \in device : d.api_key = req'[w].x_api_key}) = 1
       ]_vars

\* C18 witness: two Devices are registered with different keys and a request
\* carrying the key of one of them has been authorized.
C18_Witness ==
  /\ Cardinality(device) = 2
  /\ \E w \in Workers, d \in device :
       /\ pc[w] \in {"reg_load", "vit_load"}
       /\ req[w].x_api_key = d.api_key

\* C19: every stored Vital names a registered Device as its origin, and its
\* patient is the patient that Device is bound to in the registry.
C19_VitalLinkedThroughRegistry ==
  \A v \in vital :
    \E d \in device : d.id = v.device_id /\ d.patient_id = v.patient_id

\* C20: requests served in turn. Every stored Device's patient_id names a
\* stored Patient, and the Patients change only in the step in which a
\* registration returns 'registered': that step commits the new Device and
\* with it no Patient other than the one the Device names.
C20_DevicePatientCommittedTogether ==
  /\ [](\A d \in device : \E p \in patient : p.id = d.patient_id)
  /\ [][patient' # patient =>
          \E w \in Workers :
            /\ Returns(w)
            /\ req'[w].kind = "register"
            /\ resp'[w].status = "registered"
            /\ patient \subseteq patient'
            /\ \E row \in device' \ device :
                 /\ device' = device \cup {row}
                 /\ row.id = req'[w].device_id
                 /\ \A p \in patient' \ patient : p.id = row.patient_id
       ]_vars

\* C20 witness: a registration of a stored Device that named a new patient has
\* returned 'already_registered' and no Patient of that id is stored, while the
\* Patient of the stored Device is.
C20_Witness ==
  \E w \in Workers :
    /\ pc[w] = "done"
    /\ resp[w].status = "already_registered"
    /\ \A p \in patient : p.id # req[w].patient_id
    /\ \E d \in device, p \in patient :
         d.id = req[w].device_id /\ p.id = d.patient_id

====
